---- MODULE Spec2Model ----
(***************************************************************************)
(* A model of the Redis event store of TerraSkye/eh-redis (eventstore.go): *)
(* EventStore.Save, EventStore.Load and EventStore.Clear running against   *)
(* one Redis keyspace, each Redis command being one atomic step.           *)
(***************************************************************************)
EXTENDS Integers, Sequences, FiniteSets, TLC

\* ------------------------------------------------------------------ bounds
\* Largest event version a caller supplies.
MaxVersion == 2
\* Longest batch handed to Save.
MaxBatch == 2

\* The callers of the store; each makes one call.
Procs == {"p1", "p2", "p3"}
\* The callers that run concurrently.
Callers == {"p1", "p2"}
\* Namespaces read from the caller's context.
Namespaces == {"ns1", "ns2"}
\* Aggregate ids (uuid.UUID rendered by %s).
AggregateIDs == {"a1", "a2"}

\* ------------------------------------------------------------------ errors
\* An error is the chain of its kinds, outermost first:
\* eh.EventStoreError{Err: e, BaseErr: b} is <<e>> \o b, and nil is <<>>.
NoErr == <<>>
ErrCouldNotClearDB == "could not clear database"
ErrVersionConflict == "can not create/update aggregate"
ErrCouldNotMarshalEvent == "could not marshal event"
ErrCouldNotUnmarshalEvent == "could not unmarshal event"
ErrCouldNotSaveAggregate == "could not save aggregate"
ErrNoEventsToAppend == "no events to append"
ErrInvalidEvent == "invalid event"
ErrIncorrectEventVersion == "mismatching event version"
\* An error reported by the Redis client (connection, timeout, ...).
RedisFault == "redis: i/o fault"

EventStoreError(err, baseErr) == <<err>> \o baseErr

\* ------------------------------------------------------------------ values
\* No payload: a nil eh.EventData.
NoData == "<nil>"
\* Byte strings are tagged tuples. A nil []byte / json.RawMessage:
NilBytes == <<"nil">>
\* The JSON literal null:
JNull == <<"null">>
\* A map[string]interface{}: nil, or the mapping kv. A value of the mapping is
\* <<dynamic Go type, value>>.
NilMap == [isNil |-> TRUE, kv |-> <<>>]
MakeMap(kv) == [isNil |-> FALSE, kv |-> kv]

Put(f, k, v) == [x \in (DOMAIN f) \cup {k} |-> IF x = k THEN v ELSE f[x]]

\* strconv.Itoa
Itoa(n) == ToString(n)

\* A key made of the aggregate id alone, under one fixed prefix.
KeyWithoutNamespace(ns, id) == "ns1:" \o id

\* fmt.Sprintf("%s:%s", ns, aggregateID)
Key(ns, id) == ns \o ":" \o id

\* ---------------------------------------------------------------- encoding
\* encoding/json on one metadata value: channels (and funcs) are unsupported,
\* strings become JSON strings, every Go number becomes a JSON number.
JsonSupported(v) == v[1] \in {"string", "int", "float64"}
JsonEncodeValue(v) == IF v[1] = "string" THEN <<"jstring", v[2]>> ELSE <<"jnumber", v[2]>>
\* encoding/json decoding a JSON value into an interface{}: a JSON number is
\* stored as a float64, a JSON string as a string.
JsonDecodeValue(j) == IF j[1] = "jstring" THEN <<"string", j[2]>> ELSE <<"float64", j[2]>>

\* json.Marshal(event.Metadata())
JsonMarshalMap(m) ==
    IF m.isNil THEN [val |-> JNull, err |-> NoErr]
    ELSE IF \E k \in DOMAIN m.kv : ~JsonSupported(m.kv[k])
         THEN [val |-> NilBytes, err |-> <<"json: unsupported type">>]
         ELSE [val |-> <<"object", [k \in DOMAIN m.kv |-> JsonEncodeValue(m.kv[k])]>>,
               err |-> NoErr]

\* json.Unmarshal(e.RawMetaData, &e.MetaData), e.MetaData being nil before:
\* null leaves the map nil, an object allocates and fills it.
JsonUnmarshalMap(raw) ==
    IF raw[1] = "null" THEN [val |-> NilMap, err |-> NoErr]
    ELSE IF raw[1] = "object"
         THEN [val |-> MakeMap([k \in DOMAIN raw[2] |-> JsonDecodeValue(raw[2][k])]),
               err |-> NoErr]
         ELSE [val |-> NilMap, err |-> <<"json: cannot unmarshal">>]

\* Encoder.Marshal: a payload becomes its JSON text, an absent payload the nil
\* byte string; a payload the codec cannot encode is an error.
EncoderMarshal(data) ==
    IF data = NoData THEN [val |-> NilBytes, err |-> NoErr]
    ELSE IF data = "unencodable" THEN [val |-> NilBytes, err |-> <<"encoder: cannot encode">>]
    ELSE [val |-> <<"payload", data>>, err |-> NoErr]

\* Encoder.Unmarshal: the payload of the JSON text, chosen by the event type; an
\* event type unknown to the registry is an error.
EncoderUnmarshal(eventType, raw) ==
    IF eventType = "Unregistered" THEN [val |-> NoData, err |-> <<"encoder: unknown event type">>]
    ELSE IF raw[1] = "payload" THEN [val |-> raw[2], err |-> NoErr]
    ELSE [val |-> NoData, err |-> NoErr]

\* time.Time.MarshalJSON / UnmarshalJSON: the instant as RFC 3339 text.
FormatTime(t) == <<"rfc3339", t>>
ParseTime(j) == j[2]

\* AggregateEvent.MarshalBinary: json.Marshal of the struct. The unexported
\* field data is left out; a nil RawMessage and a nil map are written as null.
MarshalBinary(a) ==
    [EventID |-> a.EventID,
     Namespace |-> a.Namespace,
     AggregateID |-> a.AggregateID,
     AggregateType |-> a.AggregateType,
     EventType |-> a.EventType,
     RawEventData |-> IF a.RawEventData = NilBytes THEN JNull ELSE a.RawEventData,
     Timestamp |-> FormatTime(a.Timestamp),
     Version |-> <<"jnumber", a.Version>>,
     MetaData |-> JsonMarshalMap(a.MetaData).val,
     RawMetaData |-> IF a.RawMetaData = NilBytes THEN JNull ELSE a.RawMetaData]

\* json.Unmarshal([]byte(dbEvent), &e) into the zero AggregateEvent. A
\* json.RawMessage field takes the bytes of its JSON value, the literal null
\* included, so it is never nil afterwards.
UnmarshalBinary(b) ==
    [EventID |-> b.EventID,
     Namespace |-> b.Namespace,
     AggregateID |-> b.AggregateID,
     AggregateType |-> b.AggregateType,
     EventType |-> b.EventType,
     RawEventData |-> b.RawEventData,
     Timestamp |-> ParseTime(b.Timestamp),
     Version |-> b.Version[2],
     MetaData |-> JsonUnmarshalMap(b.MetaData).val,
     data |-> NoData,
     RawMetaData |-> b.RawMetaData]

\* The error of json.Unmarshal([]byte(dbEvent), &e): a member of the wrong JSON
\* type for its field, here a Version that is not a number.
EnvelopeErr(b) ==
    IF b.Version[1] = "jnumber" THEN NoErr
    ELSE <<"json: cannot unmarshal string into Go struct field">>

\* NewUUID(): a fresh identifier, here the caller and the position of the event
\* in its batch.
NewUUID(call, i) == <<call, i>>

\* newDBEvent
newDBEvent(ns, event, uuid) ==
    LET rawEventData == EncoderMarshal(event.Data)
        rawMetaData == JsonMarshalMap(event.Metadata)
    IN  IF rawEventData.err # NoErr
        THEN [val |-> <<>>, err |-> EventStoreError(ErrCouldNotMarshalEvent, rawEventData.err)]
        ELSE IF rawMetaData.err # NoErr
        THEN [val |-> <<>>, err |-> EventStoreError(ErrCouldNotMarshalEvent, rawMetaData.err)]
        ELSE [val |-> [EventID |-> uuid,
                       Namespace |-> ns,
                       AggregateID |-> event.AggregateID,
                       AggregateType |-> event.AggregateType,
                       EventType |-> event.EventType,
                       RawEventData |-> rawEventData.val,
                       Timestamp |-> event.Timestamp,
                       Version |-> event.Version,
                       MetaData |-> NilMap,
                       data |-> NoData,
                       RawMetaData |-> rawMetaData.val],
              err |-> NoErr]

\* The loop with the version check written < instead of #: a version beyond
\* the expected one is let through.
RECURSIVE BuildDBEventsLaxVersion(_, _, _, _, _, _)
BuildDBEventsLaxVersion(call, ns, events, i, version, dbEvents) ==
    IF i > Len(events) THEN [dbEvents |-> dbEvents, err |-> NoErr]
    ELSE LET event == events[i] IN
         IF event.AggregateID # events[1].AggregateID
         THEN [dbEvents |-> <<>>, err |-> EventStoreError(ErrInvalidEvent, NoErr)]
         ELSE IF event.Version < version + 1
         THEN [dbEvents |-> <<>>, err |-> EventStoreError(ErrIncorrectEventVersion, NoErr)]
         ELSE LET e == newDBEvent(ns, event, NewUUID(call, i)) IN
              IF e.err # NoErr
              THEN [dbEvents |-> <<>>, err |-> e.err]
              ELSE BuildDBEventsLaxVersion(call, ns, events, i + 1, version + 1,
                                           Put(dbEvents, Itoa(event.Version), e.val))

\* The loop without the check that every event belongs to the first event's
\* aggregate.
RECURSIVE BuildDBEventsAnyAggregate(_, _, _, _, _, _)
BuildDBEventsAnyAggregate(call, ns, events, i, version, dbEvents) ==
    IF i > Len(events) THEN [dbEvents |-> dbEvents, err |-> NoErr]
    ELSE LET event == events[i] IN
         IF event.Version # version + 1
         THEN [dbEvents |-> <<>>, err |-> EventStoreError(ErrIncorrectEventVersion, NoErr)]
         ELSE LET e == newDBEvent(ns, event, NewUUID(call, i)) IN
              IF e.err # NoErr
              THEN [dbEvents |-> <<>>, err |-> e.err]
              ELSE BuildDBEventsAnyAggregate(call, ns, events, i + 1, version + 1,
                                             Put(dbEvents, Itoa(event.Version), e.val))

\* The loop filing each record under its position in the batch in place of its
\* version.
RECURSIVE BuildDBEventsByPosition(_, _, _, _, _, _)
BuildDBEventsByPosition(call, ns, events, i, version, dbEvents) ==
    IF i > Len(events) THEN [dbEvents |-> dbEvents, err |-> NoErr]
    ELSE LET event == events[i] IN
         IF event.AggregateID # events[1].AggregateID
         THEN [dbEvents |-> <<>>, err |-> EventStoreError(ErrInvalidEvent, NoErr)]
         ELSE IF event.Version # version + 1
         THEN [dbEvents |-> <<>>, err |-> EventStoreError(ErrIncorrectEventVersion, NoErr)]
         ELSE LET e == newDBEvent(ns, event, NewUUID(call, i)) IN
              IF e.err # NoErr
              THEN [dbEvents |-> <<>>, err |-> e.err]
              ELSE BuildDBEventsByPosition(call, ns, events, i + 1, version + 1,
                                           Put(dbEvents, Itoa(i), e.val))

\* The loop of Save that validates the batch and builds dbEvents, from event i
\* on: the first failing check of the first failing event ends it.
RECURSIVE BuildDBEvents(_, _, _, _, _, _)
BuildDBEvents(call, ns, events, i, version, dbEvents) ==
    IF i > Len(events) THEN [dbEvents |-> dbEvents, err |-> NoErr]
    ELSE LET event == events[i] IN
         IF event.AggregateID # events[1].AggregateID
         THEN [dbEvents |-> <<>>, err |-> EventStoreError(ErrInvalidEvent, NoErr)]
         ELSE IF event.Version # version + 1
         THEN [dbEvents |-> <<>>, err |-> EventStoreError(ErrIncorrectEventVersion, NoErr)]
         ELSE LET e == newDBEvent(ns, event, NewUUID(call, i)) IN
              IF e.err # NoErr
              THEN [dbEvents |-> <<>>, err |-> e.err]
              ELSE BuildDBEvents(call, ns, events, i + 1, version + 1,
                                 Put(dbEvents, Itoa(event.Version), e.val))

\* The part of Save before the transaction: the empty-batch check, then the loop.
ValidateAndBuild(call, ns, events, originalVersion) ==
    IF Len(events) = 0
    THEN [dbEvents |-> <<>>, err |-> EventStoreError(ErrNoEventsToAppend, NoErr)]
    ELSE BuildDBEvents(call, ns, events, 1, originalVersion, <<>>)

\* ------------------------------------------------------------------- Redis
\* HSET in place of HSETNX: the field is written whether or not it exists.
HSetOverwrite(db, key, field, value) ==
    [val |-> TRUE,
     db |-> Put(db, key, Put(IF key \in DOMAIN db THEN db[key] ELSE <<>>, field, value))]

\* An HSETNX that, writing an absent field, replaces the whole hash by the one
\* field.
HSetFresh(db, key, field, value) ==
    IF key \in DOMAIN db /\ field \in DOMAIN db[key]
    THEN [val |-> FALSE, db |-> db]
    ELSE [val |-> TRUE, db |-> Put(db, key, Put(<<>>, field, value))]

\* HSETNX key field value on keyspace db: writes the field if it is absent,
\* creating the hash if there is none; Val() is whether it wrote.
HSetNX(db, key, field, value) ==
    IF key \in DOMAIN db /\ field \in DOMAIN db[key]
    THEN [val |-> FALSE, db |-> db]
    ELSE [val |-> TRUE,
          db |-> Put(db, key, Put(IF key \in DOMAIN db THEN db[key] ELSE <<>>, field, value))]

\* HGETALL key: every field of the hash; a key that does not exist has none.
HGetAll(db, key) == IF key \in DOMAIN db THEN db[key] ELSE <<>>

\* DEL key
Del(db, key) == [k \in (DOMAIN db) \ {key} |-> db[k]]

\* A key matches the pattern fmt.Sprintf("%s:*", ns): it starts with ns and ":".
MatchesPattern(ns, key) ==
    /\ Len(key) >= Len(ns) + 1
    /\ SubSeq(key, 1, Len(ns) + 1) = ns \o ":"

\* A namespace whose name begins with another namespace and the separator.
NestedNamespaces == {"ns1:x"}
\* The keys SCAN may come across: those of every namespace.
AllKeys == {Key(ns, id) : ns \in Namespaces \cup NestedNamespaces, id \in AggregateIDs}

\* -------------------------------------------------------------------- Load
\* The body of Load's loop for one stored value: the envelope, then the
\* payload through the encoder, then the metadata.
DecodeEvent(dbEvent) ==
    LET e == UnmarshalBinary(dbEvent)
        eventData == EncoderUnmarshal(e.EventType, e.RawEventData)
        metaData == JsonUnmarshalMap(e.RawMetaData)
    IN  IF EnvelopeErr(dbEvent) # NoErr
        THEN [val |-> dbEvent,
              err |-> EventStoreError(ErrCouldNotUnmarshalEvent, EnvelopeErr(dbEvent))]
        ELSE IF e.RawEventData # NilBytes /\ eventData.err # NoErr
        THEN [val |-> e, err |-> EventStoreError(ErrCouldNotUnmarshalEvent, eventData.err)]
        ELSE IF e.RawMetaData # NilBytes /\ metaData.err # NoErr
        THEN [val |-> e, err |-> EventStoreError(ErrCouldNotUnmarshalEvent, metaData.err)]
        ELSE [val |-> [e EXCEPT !.data = IF e.RawEventData # NilBytes
                                           THEN eventData.val ELSE NoData,
                                 !.RawEventData = NilBytes,
                                 !.MetaData = IF e.RawMetaData # NilBytes
                                               THEN metaData.val ELSE e.MetaData],
              err |-> NoErr]

\* Load without its sort: the events in the order the map gave them.
Unsorted(events) == events

\* The sort with its less function reversed: descending by Version.
RECURSIVE InsertDescending(_, _)
InsertDescending(sorted, e) ==
    IF sorted = <<>> THEN <<e>>
    ELSE IF e.Version > Head(sorted).Version THEN <<e>> \o sorted
    ELSE <<Head(sorted)>> \o InsertDescending(Tail(sorted), e)

\* sort.Slice(events, less by Version): an insertion sort.
RECURSIVE Insert(_, _)
Insert(sorted, e) ==
    IF sorted = <<>> THEN <<e>>
    ELSE IF e.Version < Head(sorted).Version THEN <<e>> \o sorted
    ELSE <<Head(sorted)>> \o Insert(Tail(sorted), e)

RECURSIVE SortByVersion(_)
SortByVersion(events) ==
    IF events = <<>> THEN <<>>
    ELSE Insert(SortByVersion(SubSeq(events, 1, Len(events) - 1)), events[Len(events)])

\* The loop returning, at a record that fails to decode, the events decoded
\* before it together with the error.
RECURSIVE LoadLoopPartial(_, _, _, _)
LoadLoopPartial(hash, order, i, events) ==
    IF i > Len(order) THEN [events |-> SortByVersion(events), err |-> NoErr]
    ELSE LET d == DecodeEvent(hash[order[i]]) IN
         IF d.err # NoErr THEN [events |-> SortByVersion(events), err |-> d.err]
         ELSE LoadLoopPartial(hash, order, i + 1, Append(events, d.val))

\* Load's loop over cmd.Val(), visited in the order the map iteration gives
\* (order lists the fields), from position i on, then the sort.
RECURSIVE LoadLoop(_, _, _, _)
LoadLoop(hash, order, i, events) ==
    IF i > Len(order) THEN [events |-> SortByVersion(events), err |-> NoErr]
    ELSE LET d == DecodeEvent(hash[order[i]]) IN
         IF d.err # NoErr THEN [events |-> <<>>, err |-> d.err]
         ELSE LoadLoop(hash, order, i + 1, Append(events, d.val))

\* The orders in which a Go map over the fields S may be iterated.
Orders(S) == {o \in [1..Cardinality(S) -> S] : \A i, j \in DOMAIN o : i # j => o[i] # o[j]}

\* The eh.Event view of a loaded event (the methods of type event).
EventView(e) ==
    [AggregateID |-> e.AggregateID,
     AggregateType |-> e.AggregateType,
     EventType |-> e.EventType,
     Version |-> e.Version,
     Timestamp |-> e.Timestamp,
     Data |-> e.data,
     Metadata |-> e.MetaData]

\* ------------------------------------------------------------------- state
VARIABLES
    store,    \* the Redis keyspace: key -> (field -> stored value)
    pc,       \* where each caller is: "idle" (before its call), "hsetnx" (in Save),
              \* "scan" (in Clear), "done" (returned)
    cur,      \* the locals of the call in flight
    ret,      \* what each caller's call returned
    op,       \* each caller's call: its name, key and fields
    created,  \* the fields the caller's Save wrote
    issued,   \* the HSETNX commands the caller's Save sent
    conc,     \* the callers whose call overlapped this one's
    cmderr,   \* whether a Redis command of the caller's call failed
    script,   \* the call a scripted caller is to make
    store0,   \* the keyspace the behaviour started from
    cancelled \* whether the context each caller passes has been cancelled

vars == <<store, pc, cur, ret, op, created, issued, conc, cmderr, script, store0, cancelled>>

NoCall == [key |-> "", dbEvents |-> <<>>, todo |-> {}]
NoRet == [events |-> <<>>, err |-> NoErr]
NoOp == [name |-> "", key |-> "", fields |-> {}]
NoScript == [name |-> "", ns |-> "", id |-> "", events |-> <<>>, originalVersion |-> 0]

\* A call begins: the calls in flight overlap it.
Begin(p, o) ==
    /\ pc[p] = "idle"
    /\ op' = [op EXCEPT ![p] = o]
    /\ conc' = [q \in Procs |->
                 IF q = p THEN {r \in Procs \ {p} : pc[r] \in {"hsetnx", "scan"}}
                 ELSE IF pc[q] \in {"hsetnx", "scan"} THEN conc[q] \cup {p}
                 ELSE conc[q]]
    /\ UNCHANGED <<script, store0, cancelled>>

\* A call returns events and err.
Return(p, events, err) ==
    /\ pc' = [pc EXCEPT ![p] = "done"]
    /\ cur' = [cur EXCEPT ![p] = NoCall]
    /\ ret' = [ret EXCEPT ![p] = [events |-> events, err |-> err]]

\* -------------------------------------------------------------------- Save
\* Save up to the first command of the transaction: validation, the records,
\* then WATCH key (fault: the command fails, and Watch returns its error).
SaveStart(p, ns, events, originalVersion, fault) ==
    LET b == ValidateAndBuild(p, ns, events, originalVersion)
        key == IF Len(events) = 0 THEN "" ELSE Key(ns, events[1].AggregateID)
    IN  /\ Begin(p, [name |-> "Save", key |-> key, fields |-> DOMAIN b.dbEvents])
        /\ UNCHANGED <<store, created, issued>>
        /\ cmderr' = [cmderr EXCEPT ![p] = (b.err = NoErr /\ fault)]
        /\ IF b.err # NoErr THEN Return(p, <<>>, b.err)
           ELSE IF fault
           THEN Return(p, <<>>, EventStoreError(ErrCouldNotSaveAggregate, <<RedisFault>>))
           ELSE /\ pc' = [pc EXCEPT ![p] = "hsetnx"]
                /\ cur' = [cur EXCEPT ![p] = [key |-> key, dbEvents |-> b.dbEvents,
                                              todo |-> DOMAIN b.dbEvents]]
                /\ UNCHANGED ret

\* What Save returns when the function given to Watch returned err.
SaveResult(err) ==
    IF err # NoErr THEN EventStoreError(ErrCouldNotSaveAggregate, err) ELSE NoErr

\* What the function given to Watch returns when HSETNX gave Val() = false and
\* Err() = cmdErr.
HSetNXFailed(cmdErr) == EventStoreError(ErrVersionConflict, cmdErr)

\* One turn of the loop over dbEvents inside Watch: HSETNX of field, any field
\* not yet visited (the map is iterated in no fixed order), sent at once on the
\* transaction's connection. fault: the command fails, Val() is false.
SaveHSetNX(p, field, fault) ==
    /\ pc[p] = "hsetnx"
    /\ field \in cur[p].todo
    /\ LET r == IF fault THEN [val |-> FALSE, db |-> store]
                ELSE HSetNX(store, cur[p].key, field, MarshalBinary(cur[p].dbEvents[field]))
           cmdErr == IF fault THEN <<RedisFault>> ELSE NoErr
       IN  /\ store' = r.db
           /\ issued' = [issued EXCEPT ![p] = @ + 1]
           /\ cmderr' = [cmderr EXCEPT ![p] = fault]
           /\ IF r.val = FALSE
              THEN /\ Return(p, <<>>, SaveResult(HSetNXFailed(cmdErr)))
                   /\ UNCHANGED created
              ELSE /\ created' = [created EXCEPT ![p] = @ \cup {field}]
                   /\ IF cur[p].todo = {field}
                      THEN Return(p, <<>>, SaveResult(NoErr))
                      ELSE /\ cur' = [cur EXCEPT ![p].todo = @ \ {field}]
                           /\ UNCHANGED <<pc, ret>>
    /\ UNCHANGED <<op, conc, script, store0, cancelled>>

\* -------------------------------------------------------------------- Load
\* Load: HGETALL (fault: the command fails and Val() is the empty map), the
\* loop over the values in the order the map gives them, the sort.
Load(p, ns, id, order, fault) ==
    LET hash == IF fault THEN <<>> ELSE HGetAll(store, Key(ns, id))
        r == LoadLoop(hash, order, 1, <<>>)
    IN  /\ order \in Orders(DOMAIN hash)
        /\ Begin(p, [name |-> "Load", key |-> Key(ns, id), fields |-> {}])
        /\ Return(p, r.events, r.err)
        /\ cmderr' = [cmderr EXCEPT ![p] = fault]
        /\ UNCHANGED <<store, created, issued>>

\* ------------------------------------------------------------------- Clear
\* Clear up to the scan: WATCH of the pattern (fault: it fails).
ClearStart(p, ns, fault) ==
    /\ Begin(p, [name |-> "Clear", key |-> ns, fields |-> {}])
    /\ cmderr' = [cmderr EXCEPT ![p] = fault]
    /\ UNCHANGED <<store, created, issued>>
    /\ IF fault
       THEN Return(p, <<>>, EventStoreError(ErrCouldNotClearDB, <<RedisFault>>))
       ELSE /\ pc' = [pc EXCEPT ![p] = "scan"]
            /\ cur' = [cur EXCEPT ![p] = [key |-> ns, dbEvents |-> <<>>, todo |-> {}]]
            /\ UNCHANGED ret

\* The scan passes key k: if the key exists it is returned by the iterator and
\* deleted (fault: SCAN or DEL fails); the iteration ends after the last key.
ClearNext(p, k, fault) ==
    /\ pc[p] = "scan"
    /\ k \in AllKeys \ cur[p].todo
    /\ MatchesPattern(cur[p].key, k)
    /\ cmderr' = [cmderr EXCEPT ![p] = fault]
    /\ IF fault
       THEN /\ Return(p, <<>>, EventStoreError(ErrCouldNotClearDB, <<RedisFault>>))
            /\ UNCHANGED store
       ELSE /\ store' = Del(store, k)
            /\ IF \A k2 \in AllKeys \ (cur[p].todo \cup {k}) : ~MatchesPattern(cur[p].key, k2)
               THEN Return(p, <<>>, NoErr)
               ELSE /\ cur' = [cur EXCEPT ![p].todo = @ \cup {k}]
                    /\ UNCHANGED <<pc, ret>>
    /\ UNCHANGED <<op, created, issued, conc, script, store0, cancelled>>


\* ------------------------------------------------------------------ inputs
\* The events callers hand to Save: every aggregate id and version, with the
\* given type, time, payload and metadata.
EventsOf(ids, versions, contents) ==
    {[AggregateID |-> id, AggregateType |-> c.AggregateType, EventType |-> c.EventType,
      Version |-> v, Timestamp |-> c.Timestamp, Data |-> c.Data, Metadata |-> c.Metadata] :
        id \in ids, v \in versions, c \in contents}

BatchesOf(events, maxLen) == UNION {[1..n -> events] : n \in 0..maxLen}

\* An ordinary event body, and one whose metadata json.Marshal rejects.
PlainContent ==
    [AggregateType |-> "Account", EventType |-> "Created", Timestamp |-> 10,
     Data |-> "d1", Metadata |-> MakeMap([k \in {"k"} |-> <<"string", "x">>])]
UnencodableContent ==
    [AggregateType |-> "Account", EventType |-> "Created", Timestamp |-> 10,
     Data |-> "d1", Metadata |-> MakeMap([k \in {"k"} |-> <<"chan", "c">>])]

\* Every batch of up to MaxBatch events.
Batches == BatchesOf(EventsOf(AggregateIDs, 1..MaxVersion, {PlainContent, UnencodableContent}),
                     MaxBatch)

\* The batches of consecutive versions of one aggregate, and the empty batch.
Consecutive(b) == \A i \in 2..Len(b) : b[i].Version = b[i - 1].Version + 1
RunBatches ==
    {b \in BatchesOf(EventsOf({"a1"}, 1..MaxVersion, {PlainContent}), MaxBatch) : Consecutive(b)}

\* ----------------------------------------------------- the store under load
\* The keyspace in which the key of (ns, id) holds the versions S, each written
\* by an earlier Save (caller p0), and no other key exists.
EarlierEvent(id, v) == CHOOSE e \in EventsOf({id}, {v}, {PlainContent}) : TRUE
StoreWith(ns, id, S) ==
    IF S = {} THEN <<>>
    ELSE [k \in {Key(ns, id)} |->
             [f \in {Itoa(v) : v \in S} |->
                 LET v == CHOOSE w \in S : Itoa(w) = f
                 IN  MarshalBinary(newDBEvent(ns, EarlierEvent(id, v), NewUUID("p0", v)).val)]]

\* The keyspaces a behaviour starts from: the empty one, and the one a first
\* Save of version 1 of aggregate a1 under ns1 leaves.
InitialStores == {StoreWith("ns1", "a1", {}), StoreWith("ns1", "a1", {1})}

\* Everything but the keyspace and the scripts, before any call.
InitCallers ==
    /\ pc = [p \in Procs |-> "idle"]
    /\ cur = [p \in Procs |-> NoCall]
    /\ ret = [p \in Procs |-> NoRet]
    /\ op = [p \in Procs |-> NoOp]
    /\ created = [p \in Procs |-> {}]
    /\ issued = [p \in Procs |-> 0]
    /\ conc = [p \in Procs |-> {}]
    /\ cmderr = [p \in Procs |-> FALSE]
    /\ store0 = store
    /\ cancelled = [p \in Procs |-> FALSE]

Init ==
    /\ store \in InitialStores
    /\ script = [p \in Procs |-> NoScript]
    /\ InitCallers

SaveBegin(p) ==
    /\ \E ns \in Namespaces, events \in RunBatches, originalVersion \in 0..(MaxVersion - 1),
          fault \in BOOLEAN :
          SaveStart(p, ns, events, originalVersion, fault)

SaveStep(p) ==
    \E field \in cur[p].todo, fault \in BOOLEAN : SaveHSetNX(p, field, fault)

LoadCall(p) ==
    /\ \E ns \in Namespaces, id \in {"a1"}, fault \in BOOLEAN :
          \E order \in Orders(DOMAIN (IF fault THEN <<>> ELSE HGetAll(store, Key(ns, id)))) :
             Load(p, ns, id, order, fault)

ClearBegin(p) ==
    /\ \E ns \in Namespaces, fault \in BOOLEAN : ClearStart(p, ns, fault)

ClearStep(p) ==
    \E k \in AllKeys, fault \in BOOLEAN : ClearNext(p, k, fault)

Next ==
    \E p \in Callers :
        \/ SaveBegin(p)
        \/ SaveStep(p)
        \/ LoadCall(p)
        \/ ClearBegin(p)
        \/ ClearStep(p)

Spec == Init /\ [][Next]_vars

\* ------------------------------------------------------ one Save, run alone
\* Caller p makes the call its script names, once the callers before it have
\* returned without error.
Before(p) == IF p = "p2" THEN {"p1"} ELSE IF p = "p3" THEN {"p1", "p2"} ELSE {}
Turn(p) == \A q \in Before(p) : pc[q] = "done" /\ ret[q].err = NoErr

ScriptedSave(p) ==
    /\ script[p].name = "Save"
    /\ Turn(p)
    /\ \E fault \in BOOLEAN :
          SaveStart(p, script[p].ns, script[p].events, script[p].originalVersion, fault)

ScriptedLoad(p) ==
    /\ script[p].name = "Load"
    /\ Turn(p)
    /\ \E fault \in BOOLEAN :
          \E order \in Orders(DOMAIN (IF fault THEN <<>>
                                       ELSE HGetAll(store, Key(script[p].ns, script[p].id)))) :
             Load(p, script[p].ns, script[p].id, order, fault)

SaveCall(ns, events, originalVersion) ==
    [name |-> "Save", ns |-> ns, id |-> "", events |-> events,
     originalVersion |-> originalVersion]
LoadCallOf(ns, id) ==
    [name |-> "Load", ns |-> ns, id |-> id, events |-> <<>>, originalVersion |-> 0]

\* Any batch and any originalVersion, on a key holding any set of versions.
InitSingle ==
    /\ store \in {StoreWith("ns1", "a1", S) : S \in SUBSET (1..MaxVersion)}
    /\ script \in {[p \in Procs |-> IF p = "p1" THEN c ELSE NoScript] :
                      c \in {SaveCall("ns1", b, v) : b \in Batches, v \in 0..MaxVersion}}
    /\ InitCallers

NextSingle == ScriptedSave("p1") \/ SaveStep("p1")

SpecSingle == InitSingle /\ [][NextSingle]_vars

\* ------------------------------------------- Saves in sequence, then a Load
\* Event bodies with and without payload, with nil, string, int and float64
\* metadata.
MetadataValues == {NilMap} \cup {MakeMap([k \in {"k"} |-> v]) :
                                    v \in {<<"string", "x">>, <<"int", 1>>, <<"float64", 1>>}}
RichContents ==
    {[AggregateType |-> "Account", EventType |-> t[1], Timestamp |-> t[2],
      Data |-> t[3], Metadata |-> m] :
        t \in {<<"Created", 10, "d1">>, <<"Renamed", 20, NoData>>}, m \in MetadataValues}

\* The event streams of aggregate a1: versions 1..n, of any bodies.
Streams ==
    UNION {{s \in [1..n -> EventsOf({"a1"}, 1..n, RichContents)] :
               \A i \in 1..n : s[i].Version = i} : n \in 1..MaxVersion}

\* A stream appended by one Save, or by two with the second starting at the
\* version the first ended at, followed by a Load of the aggregate.
ScriptOf(s, k) ==
    [p \in Procs |->
        IF p = "p1" THEN SaveCall("ns1", SubSeq(s, 1, k), 0)
        ELSE IF p = "p2"
             THEN IF k < Len(s) THEN SaveCall("ns1", SubSeq(s, k + 1, Len(s)), k)
                  ELSE LoadCallOf("ns1", "a1")
             ELSE IF k < Len(s) THEN LoadCallOf("ns1", "a1") ELSE NoScript]
RoundTripScripts == UNION {{ScriptOf(s, k) : k \in 1..Len(s)} : s \in Streams}

InitRoundTrip ==
    /\ store = <<>>
    /\ script \in {sc \in RoundTripScripts :
                      /\ Len(sc["p1"].events) \in 1..MaxBatch
                      /\ Len(sc["p2"].events) <= MaxBatch}
    /\ InitCallers

NextRoundTrip ==
    \E p \in Procs :
        \/ ScriptedSave(p)
        \/ SaveStep(p)
        \/ ScriptedLoad(p)

SpecRoundTrip == InitRoundTrip /\ [][NextRoundTrip]_vars

\* ------------------------------------- one Save whose context is cancelled
\* The context caller p passes to its call is cancelled (or its deadline
\* passes), before the call or while it runs. Save reads the namespace from the
\* context and nothing else: no step of it looks at the cancellation.
Cancel(p) ==
    /\ pc[p] \in {"idle", "hsetnx"}
    /\ ~cancelled[p]
    /\ cancelled' = [cancelled EXCEPT ![p] = TRUE]
    /\ UNCHANGED <<store, pc, cur, ret, op, created, issued, conc, cmderr, script, store0>>

NextCancel == ScriptedSave("p1") \/ SaveStep("p1") \/ Cancel("p1")

SpecCancel == InitSingle /\ [][NextCancel]_vars

\* ------------------------------ a Load of a key holding undecodable records
\* Event bodies of a type the encoder can and cannot decode.
DecodeContents ==
    {[AggregateType |-> "Account", EventType |-> t, Timestamp |-> 10,
      Data |-> d, Metadata |-> MakeMap([k \in {"k"} |-> <<"string", "x">>])] :
        t \in {"Created", "Unregistered"}, d \in {"d1", NoData}}
DecodeStreams ==
    UNION {{s \in [1..n -> EventsOf({"a1"}, 1..n, DecodeContents)] :
               \A i \in 1..n : s[i].Version = i} : n \in 0..MaxVersion}

\* Values another client of the Redis server may have stored in a field: a
\* record whose Version is a JSON string, and one whose RawMetaData is.
ForeignRecord(v) == MarshalBinary(newDBEvent("ns1", EarlierEvent("a1", v), NewUUID("p0", v)).val)
CorruptValues(v) ==
    {[ForeignRecord(v) EXCEPT !.Version = <<"jstring", "x">>],
     [ForeignRecord(v) EXCEPT !.RawMetaData = <<"jstring", "x">>]}

\* Another client writes a value into a free field of the key, before the Load.
ForeignWrite(p) ==
    LET key == Key("ns1", "a1")
        hash == HGetAll(store, key)
    IN  /\ pc[p] = "idle"
        /\ \A q \in Procs : pc[q] \in {"idle", "done"}
        /\ \A f \in DOMAIN hash :
               EnvelopeErr(hash[f]) = NoErr /\ hash[f].RawMetaData[1] # "jstring"
        /\ \E v \in 1..(MaxVersion + 1) : \E value \in CorruptValues(v) :
              /\ Itoa(v) \notin DOMAIN hash
              /\ store' = HSetNX(store, key, Itoa(v), value).db
        /\ UNCHANGED <<pc, cur, ret, op, created, issued, conc, cmderr, script, store0,
                       cancelled>>

\* A Save of a stream, any of whose events may be of an undecodable type, then
\* a Load of the aggregate.
InitDecode ==
    /\ store = <<>>
    /\ script \in {[p \in Procs |->
                       IF p = "p1" THEN SaveCall("ns1", s, 0)
                       ELSE IF p = "p2" THEN LoadCallOf("ns1", "a1") ELSE NoScript] :
                      s \in {t \in DecodeStreams : Len(t) \in 1..MaxBatch}}
    /\ InitCallers

NextDecode ==
    \/ ScriptedSave("p1")
    \/ SaveStep("p1")
    \/ ForeignWrite("p2")
    \/ ScriptedLoad("p2")

SpecDecode == InitDecode /\ [][NextDecode]_vars

\* ------------------------------------------------------ one Clear, run alone
\* The keyspace in which the key of every (namespace, aggregate id) of P holds
\* version 1, and no other key exists.
KeyspaceOf(P) ==
    [k \in {Key(x[1], x[2]) : x \in P} |->
        LET x == CHOOSE y \in P : Key(y[1], y[2]) = k
        IN  StoreWith(x[1], x[2], {1})[k]]

ClearCall(ns) ==
    [name |-> "Clear", ns |-> ns, id |-> "", events |-> <<>>, originalVersion |-> 0]

ScriptedClear(p) ==
    /\ script[p].name = "Clear"
    /\ Turn(p)
    /\ \E fault \in BOOLEAN : ClearStart(p, script[p].ns, fault)

\* Clear of any namespace, on a keyspace holding any of the keys.
InitClear ==
    /\ store \in {KeyspaceOf(P) :
                     P \in SUBSET ((Namespaces \cup NestedNamespaces) \X AggregateIDs)}
    /\ script \in {[p \in Procs |-> IF p = "p1" THEN ClearCall(ns) ELSE NoScript] :
                      ns \in Namespaces \cup NestedNamespaces}
    /\ InitCallers

NextClear == ScriptedClear("p1") \/ ClearStep("p1")

SpecClear == InitClear /\ [][NextClear]_vars

\* ================================================================== claims
Done(p) == pc[p] = "done"
SaveDone(p) == Done(p) /\ op[p].name = "Save"
\* The fields the hash at key holds in keyspace db.
Fields(db, key) == DOMAIN HGetAll(db, key)
\* Two callers saved under one key and their calls overlapped in time.
ConcurrentSaves(p, q) ==
    /\ p # q /\ SaveDone(p) /\ SaveDone(q)
    /\ op[p].key = op[q].key
    /\ q \in conc[p]
\* The target slots of p's batch were free when the behaviour began.
SlotsFree(p) == op[p].fields \cap Fields(store0, op[p].key) = {}
\* The kinds of an error: the chain of its Err values, the Redis cause left out.
ErrKinds(err) == SelectSeq(err, LAMBDA k : k # RedisFault)
InChain(k, err) == \E i \in DOMAIN err : err[i] = k

\* C1: a Save of a batch of two or more events that runs concurrently with
\* another Save on the same key has, when it returns, created either all of
\* its batch's slots or none of them. (Stated for batches whose slots were
\* free beforehand and calls in which no Redis command failed.)
C1_BatchAllOrNothing ==
    \A p \in Procs :
        (/\ SaveDone(p) /\ Cardinality(op[p].fields) >= 2
         /\ ~cmderr[p] /\ SlotsFree(p)
         /\ \E q \in Procs : ConcurrentSaves(p, q))
        => (created[p] = {} \/ created[p] = op[p].fields)

\* C2: two concurrent Saves on the same key whose batches share a version
\* never both return nil.
C2_OverlappingSavesNeverBothSucceed ==
    \A p, q \in Procs :
        (ConcurrentSaves(p, q) /\ op[p].fields \cap op[q].fields # {})
        => ~(ret[p].err = NoErr /\ ret[q].err = NoErr)

\* Two concurrent Saves sharing a version have returned: one nil, the other
\* an error that no Redis fault caused.
C2_Witness ==
    \E p, q \in Procs :
        /\ ConcurrentSaves(p, q) /\ op[p].fields \cap op[q].fields # {}
        /\ ret[p].err = NoErr /\ ret[q].err # NoErr /\ ~cmderr[q]

\* C3: when two Saves race to append the same versions of one aggregate (the
\* slots free beforehand, no Redis command failing), exactly one returns nil,
\* and no slot stored under the key holds a record the loser wrote.
C3_RaceExactlyOneWins ==
    \A p, q \in Procs :
        (/\ ConcurrentSaves(p, q)
         /\ op[p].fields = op[q].fields /\ op[p].fields # {}
         /\ ~cmderr[p] /\ ~cmderr[q] /\ SlotsFree(p))
        => /\ (ret[p].err = NoErr) # (ret[q].err = NoErr)
           /\ LET loser == IF ret[p].err = NoErr THEN q ELSE p
              IN  \A f \in Fields(store, op[p].key) : store[op[p].key][f].EventID[1] # loser

\* C4: whenever no call is in flight (and no Redis command failed), the fields
\* stored under every key are exactly the versions 1..N for some N >= 0.
ContiguousFields(S) == \E n \in 0..Cardinality(S) : S = {Itoa(i) : i \in 1..n}
C4_Contiguity ==
    (\A p \in Procs : pc[p] \in {"idle", "done"} /\ ~cmderr[p])
    => \A k \in DOMAIN store : ContiguousFields(DOMAIN store[k])

\* C5: a Save run alone on a batch that passes validation, one of whose target
\* slots exists, returns an error and leaves the keyspace as it was; and it
\* returns nil only if none of its target slots existed.
C5_StaleBatchRejectedWhole ==
    (SaveDone("p1") /\ op["p1"].fields # {} /\ ~cmderr["p1"])
    => /\ ~SlotsFree("p1") => (ret["p1"].err # NoErr /\ store = store0)
       /\ ret["p1"].err = NoErr => SlotsFree("p1")

\* C6: a Save that fails because a target slot exists (its HSETNX answered
\* false without a Redis fault) returns an error whose Err is
\* ErrVersionConflict.
C6_ConflictErrorKind ==
    \A p \in Procs :
        (SaveDone(p) /\ issued[p] > 0 /\ ret[p].err # NoErr /\ ~cmderr[p])
        => Head(ret[p].err) = ErrVersionConflict

\* C7: a Save whose HSETNX fails by a Redis fault on a slot that does not exist
\* returns the could-not-save kind wrapping the fault, and the kinds of that
\* error differ from those of a Save that failed because its slot existed.
C7_FaultDistinctFromConflict ==
    \A p, q \in Procs :
        (/\ SaveDone(p) /\ issued[p] > 0 /\ cmderr[p]
         /\ op[p].fields \cap (Fields(store0, op[p].key) \cup Fields(store, op[p].key)) = {}
         /\ SaveDone(q) /\ issued[q] > 0 /\ ret[q].err # NoErr /\ ~cmderr[q])
        => /\ Head(ret[p].err) = ErrCouldNotSaveAggregate
           /\ InChain(RedisFault, ret[p].err)
           /\ ErrKinds(ret[p].err) # ErrKinds(ret[q].err)

\* The batch and originalVersion handed to the Save that runs alone.
Batch == script["p1"].events
Deviates(i) == Batch[i].Version # script["p1"].originalVersion + i
OtherAggregate(i) == Batch[i].AggregateID # Batch[1].AggregateID
Encodes(event) ==
    EncoderMarshal(event.Data).err = NoErr /\ JsonMarshalMap(event.Metadata).err = NoErr
\* Every event before position i passes the loop: expected version, and a
\* record can be built for it.
PassesBefore(i) == \A j \in 1..(i - 1) : ~Deviates(j) /\ Encodes(Batch[j])
Rejected(kind) ==
    /\ ret["p1"].err = <<kind>>
    /\ issued["p1"] = 0
    /\ store = store0

\* C8 as stated: a batch of one aggregate in which some event's version is not
\* originalVersion + its position is rejected with ErrIncorrectEventVersion,
\* the keyspace unchanged.
C8_AnyDeviationIsVersionError ==
    (/\ Done("p1")
     /\ \A i \in DOMAIN Batch : ~OtherAggregate(i)
     /\ \E i \in DOMAIN Batch : Deviates(i))
    => Rejected(ErrIncorrectEventVersion)

\* C8 amended: ... provided a record can be built for every event before the
\* first deviating one.
C8_FirstDeviationIsVersionError ==
    (/\ Done("p1")
     /\ \A i \in DOMAIN Batch : ~OtherAggregate(i)
     /\ \E i \in DOMAIN Batch : Deviates(i) /\ PassesBefore(i))
    => Rejected(ErrIncorrectEventVersion)

\* A two-event batch deviating at its second event was rejected with
\* ErrIncorrectEventVersion on a key that held records.
C8_Witness ==
    /\ Done("p1") /\ Len(Batch) = 2
    /\ ~OtherAggregate(2) /\ ~Deviates(1) /\ Deviates(2)
    /\ ret["p1"].err = <<ErrIncorrectEventVersion>>
    /\ store0 # <<>> /\ store = store0

\* C9 as stated: the empty batch is rejected with ErrNoEventsToAppend and a
\* batch holding an event of another aggregate with ErrInvalidEvent, no write
\* issued and the keyspace unchanged.
C9_ShapeErrors ==
    Done("p1")
    => /\ Len(Batch) = 0 => Rejected(ErrNoEventsToAppend)
       /\ (\E i \in DOMAIN Batch : OtherAggregate(i)) => Rejected(ErrInvalidEvent)

\* C9 amended: ... ErrInvalidEvent provided every event before the first one of
\* another aggregate carries the expected version and a record can be built
\* for it; whatever error is returned, no write is issued and the keyspace is
\* unchanged.
C9_ShapeErrorsInLoopOrder ==
    Done("p1")
    => /\ Len(Batch) = 0 => Rejected(ErrNoEventsToAppend)
       /\ (\E i \in DOMAIN Batch : OtherAggregate(i) /\ PassesBefore(i))
          => Rejected(ErrInvalidEvent)
       /\ (\E i \in DOMAIN Batch : OtherAggregate(i))
          => (ret["p1"].err # NoErr /\ issued["p1"] = 0 /\ store = store0)

\* A two-event batch whose second event belongs to another aggregate was
\* rejected with ErrInvalidEvent on a key that held records.
C9_Witness ==
    /\ Done("p1") /\ Len(Batch) = 2 /\ OtherAggregate(2)
    /\ ret["p1"].err = <<ErrInvalidEvent>>
    /\ store0 # <<>> /\ store = store0


\* The events the scripted Saves append, in order, and the caller that loads.
Appended ==
    script["p1"].events \o (IF script["p2"].name = "Save" THEN script["p2"].events ELSE <<>>)
Loader == IF script["p2"].name = "Load" THEN "p2" ELSE "p3"
\* A Load that came after the Saves returned nil, its HGETALL not failing.
Loaded == Done(Loader) /\ op[Loader].name = "Load" /\ ~cmderr[Loader]
LoadedViews == [i \in DOMAIN ret[Loader].events |-> EventView(ret[Loader].events[i])]
\* A metadata mapping with each int value as the float64 of the same number.
IntsAsFloat64(m) ==
    [m EXCEPT !.kv = [k \in DOMAIN m.kv |->
                         IF m.kv[k][1] = "int" THEN <<"float64", m.kv[k][2]>> ELSE m.kv[k]]]

LoadReturns(p) == pc[p] = "idle" /\ pc'[p] = "done" /\ op'[p].name = "Load"

\* C11: whatever the keyspace and whatever the order in which the map of
\* HGETALL is iterated, a Load that returns nil (its HGETALL not failing)
\* returns events of strictly ascending version, one per field stored under
\* the key at the time of the call.
C11_LoadAscendingOnePerSlot ==
    [][\A p \in Procs :
          (LoadReturns(p) /\ ~cmderr'[p] /\ ret'[p].err = NoErr)
          => LET ev == ret'[p].events
             IN  /\ \A i \in 2..Len(ev) : ev[i].Version > ev[i - 1].Version
                 /\ Len(ev) = Cardinality(Fields(store, op'[p].key))
                 /\ {Itoa(ev[i].Version) : i \in DOMAIN ev} = Fields(store, op'[p].key)]_vars

\* A Load of a key holding versions 1 and 2, the second appended by a Save of
\* this behaviour, returned both events, version 1 first.
C11_Witness ==
    \E p \in Procs :
        /\ Done(p) /\ op[p].name = "Load" /\ ~cmderr[p] /\ ret[p].err = NoErr
        /\ Len(ret[p].events) = 2
        /\ ret[p].events[1].Version = 1 /\ ret[p].events[2].Version = 2
        /\ \E q \in Procs : SaveDone(q) /\ created[q] # {}

\* The keys of namespace ns that keyspace db holds.
KeysOf(db, ns) == {k \in DOMAIN db : \E id \in AggregateIDs : k = Key(ns, id)}

\* C12: after a Clear of namespace ns, run alone, has returned nil, no key of
\* ns is left, and for every other namespace the keys and the records under
\* them are those the keyspace held before the call.
C12_ClearIsolatesNamespaces ==
    (Done("p1") /\ op["p1"].name = "Clear" /\ ret["p1"].err = NoErr)
    => /\ KeysOf(store, script["p1"].ns) = {}
       /\ \A ns \in (Namespaces \cup NestedNamespaces) \ {script["p1"].ns} :
             /\ KeysOf(store, ns) = KeysOf(store0, ns)
             /\ \A k \in KeysOf(store0, ns) : store[k] = store0[k]

\* Caller p's Clear returns nil in this step.
ClearReturnsNil(p) == pc[p] = "scan" /\ pc'[p] = "done" /\ ret'[p].err = NoErr

\* C13: whenever a Clear of namespace ns returns nil, no key of ns is stored at
\* that moment: every record of ns committed before the Clear finished is
\* gone, and a Clear during which a Save created a key that it did not delete
\* fails instead.
C13_ClearFailsOnConcurrentMutation ==
    [][\A p \in Procs : ClearReturnsNil(p) => KeysOf(store', op[p].key) = {}]_vars

\* Caller p takes a step of its Clear, of namespace ns.
ClearStepOf(p, ns) == pc[p] = "scan" /\ cur[p].key = ns /\ <<pc[p], cur[p]>>' # <<pc[p], cur[p]>>

C15_CancelledSaveWritesNothing ==
    (SaveDone("p1") /\ cancelled["p1"])
    => (ret["p1"].err # NoErr /\ created["p1"] = {})

\* C16: a Load of a key that holds no field returns no events and nil; and a
\* Load whose HGETALL failed returns an error, never no events with nil.
C16_AbsentVersusFailedRead ==
    [][\A p \in Procs :
          LoadReturns(p)
          => /\ (~cmderr'[p] /\ Fields(store, op'[p].key) = {})
                => (ret'[p].events = <<>> /\ ret'[p].err = NoErr)
             /\ cmderr'[p] => ret'[p].err # NoErr]_vars

\* The key "<namespace>:<aggregate id>" of a record or event of namespace ns.
ScopedKey(ns, id) == ns \o ":" \o id
\* Caller p's Save sends an HSETNX in this step.
SaveWrites(p) == pc[p] = "hsetnx" /\ issued'[p] # issued[p]

\* C17: a step of a Save under namespace ns of events of aggregate id creates
\* or changes no key but "<ns>:<id>"; and every event a Load under namespace
\* ns of aggregate id returns is a record saved under ns for id, whatever is
\* stored for the same id under other namespaces.
C17_NamespaceScoping ==
    [][\A p \in Procs :
          /\ SaveWrites(p)
             => \A f \in DOMAIN cur[p].dbEvents :
                   \A k \in (DOMAIN store \cup DOMAIN store') \
                            {ScopedKey(cur[p].dbEvents[f].Namespace,
                                       cur[p].dbEvents[f].AggregateID)} :
                      k \in DOMAIN store /\ k \in DOMAIN store' /\ store'[k] = store[k]
          /\ LoadReturns(p)
             => \A i \in DOMAIN ret'[p].events :
                   /\ ScopedKey(ret'[p].events[i].Namespace,
                                ret'[p].events[i].AggregateID) = op'[p].key
                   /\ \E f \in Fields(store, op'[p].key) :
                         UnmarshalBinary(store[op'[p].key][f]).EventID
                             = ret'[p].events[i].EventID]_vars

\* A Load of aggregate a1 under ns2 returned the record a Save under ns2
\* wrote, while a1 also holds a record under ns1.
C17_Witness ==
    \E p, q \in Procs :
        /\ Done(p) /\ op[p].name = "Load" /\ op[p].key = "ns2:a1"
        /\ Len(ret[p].events) = 1 /\ ret[p].events[1].Namespace = "ns2"
        /\ SaveDone(q) /\ op[q].key = "ns2:a1" /\ created[q] # {}
        /\ "ns1:a1" \in DOMAIN store /\ "ns2:a1" \in DOMAIN store

\* A stored value that fails to decode: its envelope, its payload (the event
\* type unknown to the encoder) or its metadata.
BadEnvelope(r) == r.Version[1] # "jnumber"
BadPayload(r) == r.EventType = "Unregistered"
BadMetadata(r) == r.RawMetaData[1] \notin {"null", "object"}
BadRecord(r) == BadEnvelope(r) \/ BadPayload(r) \/ BadMetadata(r)
\* The hash the Load of caller p2 read (nothing writes once it has returned).
LoadedHash == HGetAll(store, op["p2"].key)

\* C18: a Load (its HGETALL not failing) of a key one of whose stored values
\* fails to decode returns ErrCouldNotUnmarshalEvent and no events, wherever
\* the order of iteration puts that value.
C18_LoadAllOrNothingOnDecodeFailure ==
    (/\ Done("p2") /\ op["p2"].name = "Load" /\ ~cmderr["p2"]
     /\ \E f \in DOMAIN LoadedHash : BadRecord(LoadedHash[f]))
    => /\ ret["p2"].events = <<>>
       /\ ret["p2"].err # NoErr
       /\ Head(ret["p2"].err) = ErrCouldNotUnmarshalEvent

\* A Load of a key holding a value that decodes and one that does not
\* returned the error.
C18_Witness ==
    /\ Done("p2") /\ op["p2"].name = "Load" /\ ~cmderr["p2"]
    /\ \E f, g \in DOMAIN LoadedHash :
          BadRecord(LoadedHash[f]) /\ ~BadRecord(LoadedHash[g])
    /\ ret["p2"].err # NoErr

\* C19: when a Save of two or more events ran concurrently with a Clear of its
\* namespace and returned nil, then, both having returned, the key holds all of
\* the fields of the batch or none of them. (Stated for calls in which no Redis
\* command failed.)
C19_SaveClearAllOrNone ==
    \A p, q \in Procs :
        (/\ SaveDone(p) /\ Cardinality(op[p].fields) >= 2 /\ ret[p].err = NoErr
         /\ Done(q) /\ op[q].name = "Clear" /\ MatchesPattern(op[q].key, op[p].key)
         /\ q \in conc[p] /\ ~cmderr[p] /\ ~cmderr[q] /\ ret[q].err = NoErr)
        => \/ op[p].fields \cap Fields(store, op[p].key) = {}
           \/ op[p].fields \subseteq Fields(store, op[p].key)

\* C20: in every reachable state, the record stored in field v of the key
\* "<ns>:<a>" has Version v, AggregateID a and Namespace ns.
C20_SlotRecordConsistency ==
    \A k \in DOMAIN store : \A f \in DOMAIN store[k] :
        LET r == UnmarshalBinary(store[k][f])
        IN  /\ f = Itoa(r.Version)
            /\ k = ScopedKey(r.Namespace, r.AggregateID)

\* A Save of version 2 alone (originalVersion 1) has written its record, of
\* aggregate a2 or next to an earlier record of a1.
C20_Witness ==
    /\ SaveDone("p1") /\ ret["p1"].err = NoErr
    /\ script["p1"].originalVersion = 1
    /\ created["p1"] = {"2"}
    /\ "2" \in Fields(store, op["p1"].key)

====
